---- MODULE Spec2Model ----
(***************************************************************************)
(* star-counter (src/main.rs): thresholding of a luminance image into a    *)
(* boolean grid, counting of the 8-connected groups of true cells          *)
(* (count_groups / mark_group), rendering of the grid as a black/white     *)
(* mask (convert_to_image) and derivation of the output file name          *)
(* (create_output_path).                                                   *)
(*                                                                         *)
(* A Vec is a sequence; Rust's 0-based index i is position i + 1.          *)
(* stars[x][y] of the source is stars[x + 1][y + 1] here.                  *)
(***************************************************************************)
EXTENDS Integers, Sequences, FiniteSets, TLC

VARIABLES
    stars,        \* Vec<Vec<bool>>, stars[x][y]; width = stars.len()
    visited,      \* count_groups: visited grid
    groups,       \* count_groups: group counter
    pc,           \* control point
    x, y,         \* loop variables of the for y / for x loops
    start,        \* mark_group: parameter start
    to_visit,     \* mark_group: the stack of cells still to expand
    cx, cy,       \* mark_group: the (x, y) popped from to_visit
    offset_x, offset_y,   \* mark_group: loop variables of the offset loops
    pushed,       \* history: how often each cell was put on to_visit
    scanned,      \* cells the outer scan has been at (free scan order only)
    img,          \* main: the decoded luma image
    sensitivity,  \* main: args.sensitivity
    output_image, \* main: args.output_image
    res,          \* main: the result of count_groups
    luma,         \* convert_to_image: the image being built
    file,         \* main: args.file
    output_name,  \* main: args.output_name
    out_path      \* main: the path handed to save

countVars == <<visited, groups, start, to_visit, cx, cy, offset_x, offset_y,
               pushed, scanned>>
mainVars == <<img, sensitivity, output_image, res, luma>>
pathVars == <<file, output_name, out_path>>

vars == <<stars, visited, groups, pc, x, y, start, to_visit, cx, cy,
          offset_x, offset_y, pushed, scanned, img, sensitivity,
          output_image, res, luma, file, output_name, out_path>>

---------------------------------------------------------------------------
(* Bounds of the model *)

MaxWidth == 5         \* widest grid
MaxHeight == 3        \* highest grid
MaxCells == 9         \* most cells of a grid that count_groups is run on
MaxFreeCells == 5     \* most cells of a grid scanned in a free order
MaxImageCells == 3    \* most pixels of an image that main is run on
MaxNameLen == 4       \* longest enumerated file name

---------------------------------------------------------------------------
(* Values of Option<T> and the outcome of an operation that may panic *)

None == [tag |-> "None"]
Some(v) == [tag |-> "Some", val |-> v]
Panic == [tag |-> "Panic"]

(* usize::checked_add_signed: None when the sum leaves the range of usize. *)
(* Only the lower end is modelled: coordinates are below the grid's        *)
(* dimensions, far from usize::MAX.                                        *)
checked_add_signed(n, offset) ==
    IF n + offset < 0 THEN None ELSE Some(n + offset)

(* v[i] (Index): panics when the index is out of range *)
index(v, i) ==
    IF i >= 0 /\ i < Len(v) THEN Some(v[i + 1]) ELSE Panic

(* A variant of get: indexing, which panics out of range *)
get_by_index(v, i) == index(v, i)

(* slice::get: None when the index is out of range *)
get(v, i) ==
    IF i >= 0 /\ i < Len(v) THEN Some(v[i + 1]) ELSE None

(* A variant of star_at: any cell inside the grid passes for a true one *)
star_at_any(grid, new_x, new_y) ==
    LET col == get(grid, new_x)
        cell == IF col.tag = "Some" THEN get(col.val, new_y) ELSE col
    IN  IF cell.tag = "Some" THEN Some(TRUE) ELSE cell

(* A variant of star_at: the two coordinates swapped *)
star_at_swapped(grid, new_x, new_y) ==
    LET col == get(grid, new_y)
    IN  IF col.tag = "Some" THEN get(col.val, new_x) ELSE col

(* stars.get(new_x).and_then(|col| col.get(new_y)) *)
star_at(grid, new_x, new_y) ==
    LET col == get(grid, new_x)
    IN  IF col.tag = "Some" THEN get(col.val, new_y) ELSE col

(* grid[px][py]: two Index operations *)
index2(grid, px, py) ==
    LET col == index(grid, px)
    IN  IF col.tag = "Some" THEN index(col.val, py) ELSE col

Width(grid) == Len(grid)
Height(grid) == Len(grid[1])

(* vec![vec![false; height]; width] *)
AllFalse(width, height) == [i \in 1..width |-> [j \in 1..height |-> FALSE]]

(* A variant of mark_visited: the mark is left out *)
mark_visited_left_out(vis, px, py) == vis

(* visited[px][py] = true *)
mark_visited(vis, px, py) == [vis EXCEPT ![px + 1][py + 1] = TRUE]

(* A variant of push: the cell is not put on the stack *)
push_left_out(stack, c) == stack

(* to_visit.push((new_x, new_y)) *)
push(stack, c) == Append(stack, c)

(* A variant of is_new_group: the visited grid is not looked at *)
is_new_group_any_star(grid, vis, px, py) == grid[px + 1][py + 1]

(* A variant of is_new_group: the occupancy grid is not looked at *)
is_new_group_any_unvisited(grid, vis, px, py) == ~vis[px + 1][py + 1]

(* stars[x][y] && !visited[x][y], the test that starts a group *)
is_new_group(grid, vis, px, py) ==
    grid[px + 1][py + 1] /\ ~vis[px + 1][py + 1]

(* The range -1..=1 of offset_x and offset_y *)
OffsetFirst == -1
OffsetLast == 1

(* The (x, y) that for y in 0..height { for x in 0..width } goes to next *)
NextXY(width, px, py) ==
    IF px + 1 < width THEN <<px + 1, py>> ELSE <<0, py + 1>>

NextCell(grid, px, py) == NextXY(Width(grid), px, py)

Cells(grid) == (0..(Width(grid) - 1)) \X (0..(Height(grid) - 1))

(* The offsets after (ox, oy); skip_x is the `continue` of the outer loop *)
NextOffsets(ox, oy, skip_x) ==
    IF skip_x \/ oy = OffsetLast
    THEN <<ox + 1, OffsetFirst>>
    ELSE <<ox, oy + 1>>

(* One pass of the body of the offset loops of mark_group, for the cell    *)
(* (px, py) popped from the stack and the offsets (ox, oy).                *)
ExamineNeighbour(grid, vis, stack, px, py, ox, oy) ==
    LET new_x == checked_add_signed(px, ox)
        new_y == checked_add_signed(py, oy)
        same(flow) == [flow |-> flow, visited |-> vis, to_visit |-> stack]
    IN  IF new_x.tag # "Some" THEN same("continue_x")
        ELSE IF new_y.tag # "Some" THEN same("continue_y")
        ELSE LET star == star_at(grid, new_x.val, new_y.val)
                 seen == index2(vis, new_x.val, new_y.val)
             IN  IF star = Panic \/ (star = Some(TRUE) /\ seen = Panic)
                 THEN same("panic")
                 ELSE IF star = Some(TRUE) /\ seen = Some(FALSE)
                 THEN [flow |-> "pushed",
                       visited |-> mark_visited(vis, new_x.val, new_y.val),
                       to_visit |-> push(stack, <<new_x.val, new_y.val>>)]
                 ELSE same("next")

---------------------------------------------------------------------------
(* count_groups and mark_group as functions of the grid *)

(* The offset loops of mark_group from (ox, oy) on *)
RECURSIVE ExpandCell(_, _, _, _, _, _, _)
ExpandCell(grid, vis, stack, px, py, ox, oy) ==
    IF ox > OffsetLast
    THEN [flow |-> "next", visited |-> vis, to_visit |-> stack]
    ELSE LET r == ExamineNeighbour(grid, vis, stack, px, py, ox, oy)
             n == NextOffsets(ox, oy, r.flow = "continue_x")
         IN  IF r.flow = "panic"
             THEN r
             ELSE ExpandCell(grid, r.visited, r.to_visit, px, py, n[1], n[2])

(* The while let loop of mark_group *)
RECURSIVE DrainStack(_, _, _)
DrainStack(grid, vis, stack) ==
    IF stack = <<>>
    THEN Some(vis)
    ELSE LET top == stack[Len(stack)]
             r == ExpandCell(grid, vis, SubSeq(stack, 1, Len(stack) - 1),
                             top[1], top[2], OffsetFirst, OffsetFirst)
         IN  IF r.flow = "panic"
             THEN Panic
             ELSE DrainStack(grid, r.visited, r.to_visit)

(* mark_group: Some(the visited grid it leaves), or Panic *)
mark_group(st, grid, vis) ==
    IF index2(vis, st[1], st[2]).tag # "Some"
    THEN Panic
    ELSE DrainStack(grid, mark_visited(vis, st[1], st[2]), <<st>>)

(* The loops of count_groups from (px, py) on, and its assert_eq! *)
RECURSIVE ScanFrom(_, _, _, _, _)
ScanFrom(grid, vis, n, px, py) ==
    IF py >= Height(grid)
    THEN IF grid = vis THEN Some(n) ELSE Panic
    ELSE LET nxt == NextCell(grid, px, py)
         IN  IF is_new_group(grid, vis, px, py)
             THEN LET m == mark_group(<<px, py>>, grid, vis)
                  IN  IF m = Panic
                      THEN Panic
                      ELSE ScanFrom(grid, m.val, n + 1, nxt[1], nxt[2])
             ELSE ScanFrom(grid, vis, n, nxt[1], nxt[2])

(* count_groups: Some(groups), or Panic *)
count_groups(grid) ==
    ScanFrom(grid, AllFalse(Width(grid), Height(grid)), 0, 0, 0)

---------------------------------------------------------------------------
(* count_groups and mark_group, one step at a time *)

Dims(cells) ==
    {d \in (1..MaxWidth) \X (1..MaxHeight) : d[1] * d[2] <= cells}

BoolGrids(cells) ==
    UNION {[1..d[1] -> [1..d[2] -> BOOLEAN]] : d \in Dims(cells)}

NoImage == [width |-> 0, height |-> 0, data |-> <<>>]

(* The parts of the state that a run of count_groups alone leaves alone *)
MainIdle ==
    /\ img = NoImage
    /\ sensitivity = 0
    /\ output_image = FALSE
    /\ res = None
    /\ luma = NoImage

PathIdle ==
    /\ file = <<>>
    /\ output_name = None
    /\ out_path = None

(* The locals of count_groups and mark_group before count_groups runs *)
CountIdle ==
    /\ visited = <<>>
    /\ groups = 0
    /\ start = <<0, 0>>
    /\ to_visit = <<>>
    /\ cx = 0
    /\ cy = 0
    /\ offset_x = OffsetFirst
    /\ offset_y = OffsetFirst
    /\ pushed = <<>>
    /\ scanned = {}

(* Entry of count_groups(&stars) *)
InitCount(grid) ==
    /\ stars = grid
    /\ visited = AllFalse(Width(grid), Height(grid))
    /\ groups = 0
    /\ pc = "for"
    /\ x = 0
    /\ y = 0
    /\ start = <<0, 0>>
    /\ to_visit = <<>>
    /\ cx = 0
    /\ cy = 0
    /\ offset_x = OffsetFirst
    /\ offset_y = OffsetFirst
    /\ pushed = [c \in Cells(grid) |-> 0]
    /\ scanned = {}
    /\ MainIdle
    /\ PathIdle

Init == \E grid \in BoolGrids(MaxCells) : InitCount(grid)

(* mark_group's entry: to_visit = vec![start]; visited[start] = true *)
EnterMarkGroup(px, py) ==
    /\ start' = <<px, py>>
    /\ to_visit' = <<(<<px, py>>)>>
    /\ pushed' = [pushed EXCEPT ![<<px, py>>] = @ + 1]
    /\ IF index2(visited, px, py).tag = "Some"
       THEN /\ visited' = mark_visited(visited, px, py)
            /\ pc' = "pop"
       ELSE /\ visited' = visited
            /\ pc' = "panic"

(* Loop body at (x, y), no new group: go on to the next cell *)
ForSkip ==
    /\ pc = "for"
    /\ y < Height(stars)
    /\ ~is_new_group(stars, visited, x, y)
    /\ x' = NextCell(stars, x, y)[1]
    /\ y' = NextCell(stars, x, y)[2]
    /\ UNCHANGED <<stars, pc, countVars, mainVars, pathVars>>

(* Loop body at (x, y), a new group: groups += 1 and call mark_group *)
ForCall ==
    /\ pc = "for"
    /\ y < Height(stars)
    /\ is_new_group(stars, visited, x, y)
    /\ groups' = groups + 1
    /\ EnterMarkGroup(x, y)
    /\ UNCHANGED <<stars, x, y, cx, cy, offset_x, offset_y, scanned,
                   mainVars, pathVars>>

(* while let Some((x, y)) = to_visit.pop() *)
Pop ==
    /\ pc = "pop"
    /\ to_visit # <<>>
    /\ cx' = to_visit[Len(to_visit)][1]
    /\ cy' = to_visit[Len(to_visit)][2]
    /\ to_visit' = SubSeq(to_visit, 1, Len(to_visit) - 1)
    /\ offset_x' = OffsetFirst
    /\ offset_y' = OffsetFirst
    /\ pc' = "nbr"
    /\ UNCHANGED <<stars, visited, groups, x, y, start, pushed, scanned,
                   mainVars, pathVars>>

(* to_visit.pop() is None: mark_group returns *)
Return ==
    /\ pc = "pop"
    /\ to_visit = <<>>
    /\ pc' = "ret"
    /\ UNCHANGED <<stars, x, y, countVars, mainVars, pathVars>>

(* One pass of the body of the offset loops, at (offset_x, offset_y) *)
Neighbour ==
    /\ pc = "nbr"
    /\ LET r == ExamineNeighbour(stars, visited, to_visit, cx, cy,
                                 offset_x, offset_y)
           n == NextOffsets(offset_x, offset_y, r.flow = "continue_x")
       IN  /\ visited' = r.visited
           /\ to_visit' = r.to_visit
           /\ pushed' = IF Len(r.to_visit) > Len(to_visit)
                        THEN [pushed EXCEPT
                                ![to_visit'[Len(to_visit')]] = @ + 1]
                        ELSE pushed
           /\ IF r.flow = "panic"
              THEN /\ pc' = "panic"
                   /\ UNCHANGED <<offset_x, offset_y>>
              ELSE /\ offset_x' = n[1]
                   /\ offset_y' = n[2]
                   /\ pc' = IF n[1] > OffsetLast THEN "pop" ELSE "nbr"
    /\ UNCHANGED <<stars, groups, x, y, start, cx, cy, scanned,
                   mainVars, pathVars>>

(* Back in count_groups after mark_group: the loops go to the next cell *)
AfterCall ==
    /\ pc = "ret"
    /\ x' = NextCell(stars, x, y)[1]
    /\ y' = NextCell(stars, x, y)[2]
    /\ pc' = "for"
    /\ UNCHANGED <<stars, countVars, mainVars, pathVars>>

(* The loops are over *)
ForExit ==
    /\ pc = "for"
    /\ y >= Height(stars)
    /\ pc' = "assert"
    /\ UNCHANGED <<stars, x, y, countVars, mainVars, pathVars>>

(* assert_eq!(stars, &visited, ...); groups *)
AssertEq ==
    /\ pc = "assert"
    /\ pc' = IF stars = visited THEN "done" ELSE "assert_failed"
    /\ UNCHANGED <<stars, x, y, countVars, mainVars, pathVars>>

Next ==
    \/ ForSkip
    \/ ForCall
    \/ Pop
    \/ Return
    \/ Neighbour
    \/ AfterCall
    \/ ForExit
    \/ AssertEq

Spec == Init /\ [][Next]_vars

(* The program is sequential and runs on: every enabled step is taken *)
FairSpec == Spec /\ WF_vars(Next)

---------------------------------------------------------------------------
(* count_groups with the cells of the outer scan taken in any order *)

InitFree == \E grid \in BoolGrids(MaxFreeCells) : InitCount(grid)

(* The scan comes to cell c, no new group *)
FreeSkip ==
    /\ pc = "for"
    /\ \E c \in Cells(stars) \ scanned :
          /\ ~is_new_group(stars, visited, c[1], c[2])
          /\ scanned' = scanned \cup {c}
    /\ UNCHANGED <<stars, pc, x, y, visited, groups, start, to_visit, cx, cy,
                   offset_x, offset_y, pushed, mainVars, pathVars>>

(* The scan comes to cell c, a new group: groups += 1 and call mark_group *)
FreeCall ==
    /\ pc = "for"
    /\ \E c \in Cells(stars) \ scanned :
          /\ is_new_group(stars, visited, c[1], c[2])
          /\ scanned' = scanned \cup {c}
          /\ groups' = groups + 1
          /\ EnterMarkGroup(c[1], c[2])
    /\ UNCHANGED <<stars, x, y, cx, cy, offset_x, offset_y,
                   mainVars, pathVars>>

FreeAfterCall ==
    /\ pc = "ret"
    /\ pc' = "for"
    /\ UNCHANGED <<stars, x, y, countVars, mainVars, pathVars>>

FreeExit ==
    /\ pc = "for"
    /\ scanned = Cells(stars)
    /\ pc' = "assert"
    /\ UNCHANGED <<stars, x, y, countVars, mainVars, pathVars>>

NextFree ==
    \/ FreeSkip
    \/ FreeCall
    \/ Pop
    \/ Return
    \/ Neighbour
    \/ FreeAfterCall
    \/ FreeExit
    \/ AssertEq

SpecFree == InitFree /\ [][NextFree]_vars

---------------------------------------------------------------------------
(* main: thresholding, counting, rendering of the mask *)

DefaultSensitivity == 20
U8Max == 255
White == 255

(* ImageBuffer: width x height samples, row after row *)
Image(width, height, data) ==
    [width |-> width, height |-> height, data |-> data]

(* ImageBuffer::get_pixel(x, y).0[0] *)
get_pixel(image, px, py) == image.data[py * image.width + px + 1]

(* GrayImage::new(width, height): all samples 0 *)
GrayImage_new(width, height) ==
    Image(width, height, [i \in 1..(width * height) |-> 0])

(* A variant of is_white: >= in place of > *)
is_white_or_equal(pixel, sens) == pixel >= sens

(* is_white *)
is_white(pixel, sens) == pixel > sens

(* A variant of render_pixel: the test negated *)
render_pixel_negated(image, grid, px, py) ==
    IF ~grid[px + 1][py + 1]
    THEN [image EXCEPT !.data[py * image.width + px + 1] = White]
    ELSE image

(* if stars[x][y] { luma.get_pixel_mut(x, y).0[0] = 255 } *)
render_pixel(image, grid, px, py) ==
    IF grid[px + 1][py + 1]
    THEN [image EXCEPT !.data[py * image.width + px + 1] = White]
    ELSE image

(* The thresholding pass of main as a function of the image *)
Threshold(image, sens) ==
    [i \in 1..image.width |->
        [j \in 1..image.height |->
            is_white(get_pixel(image, i - 1, j - 1), sens)]]

Sensitivities == {0, DefaultSensitivity, U8Max - 1, U8Max}

(* Samples around the sensitivity and at both ends of u8 *)
PixelsNear(sens) == {0, sens - 1, sens, sens + 1, U8Max} \cap (0..U8Max)

Images(sens) ==
    UNION {{Image(d[1], d[2], data) :
               data \in [1..(d[1] * d[2]) -> PixelsNear(sens)]} :
           d \in Dims(MaxImageCells)}

(* main after let mut stars = vec![vec![false; height]; width] *)
InitMain ==
    /\ sensitivity \in Sensitivities
    /\ img \in Images(sensitivity)
    /\ output_image \in BOOLEAN
    /\ stars = AllFalse(img.width, img.height)
    /\ pc = "threshold"
    /\ x = 0
    /\ y = 0
    /\ res = None
    /\ luma = NoImage
    /\ CountIdle
    /\ PathIdle

(* stars[x][y] = is_white(img.get_pixel(x, y), args.sensitivity) *)
ThresholdPixel ==
    /\ pc = "threshold"
    /\ y < img.height
    /\ stars' = [stars EXCEPT
                   ![x + 1][y + 1] = is_white(get_pixel(img, x, y), sensitivity)]
    /\ x' = NextXY(img.width, x, y)[1]
    /\ y' = NextXY(img.width, x, y)[2]
    /\ UNCHANGED <<pc, countVars, mainVars, pathVars>>

ThresholdDone ==
    /\ pc = "threshold"
    /\ y >= img.height
    /\ pc' = "count"
    /\ UNCHANGED <<stars, x, y, countVars, mainVars, pathVars>>

(* let res = count_groups(&stars); without --output-image main ends *)
CountOnly ==
    /\ pc = "count"
    /\ ~output_image
    /\ res' = count_groups(stars)
    /\ pc' = IF res' = Panic THEN "panic" ELSE "main_done"
    /\ UNCHANGED <<stars, x, y, countVars, img, sensitivity, output_image,
                   luma, pathVars>>

(* let res = count_groups(&stars); convert_to_image is entered *)
CountAndConvert ==
    /\ pc = "count"
    /\ output_image
    /\ res' = count_groups(stars)
    /\ IF res' = Panic
       THEN /\ pc' = "panic"
            /\ UNCHANGED <<luma, x, y>>
       ELSE /\ pc' = "render"
            /\ luma' = GrayImage_new(Width(stars), Height(stars))
            /\ x' = 0
            /\ y' = 0
    /\ UNCHANGED <<stars, countVars, img, sensitivity, output_image,
                   pathVars>>

(* The loop body of convert_to_image at (x, y) *)
RenderPixel ==
    /\ pc = "render"
    /\ y < Height(stars)
    /\ luma' = render_pixel(luma, stars, x, y)
    /\ x' = NextXY(Width(stars), x, y)[1]
    /\ y' = NextXY(Width(stars), x, y)[2]
    /\ UNCHANGED <<stars, pc, countVars, img, sensitivity, output_image,
                   res, pathVars>>

(* convert_to_image returns luma *)
RenderDone ==
    /\ pc = "render"
    /\ y >= Height(stars)
    /\ pc' = "main_done"
    /\ UNCHANGED <<stars, x, y, countVars, mainVars, pathVars>>

NextMain ==
    \/ ThresholdPixel
    \/ ThresholdDone
    \/ CountOnly
    \/ CountAndConvert
    \/ RenderPixel
    \/ RenderDone

SpecMain == InitMain /\ [][NextMain]_vars

---------------------------------------------------------------------------
(* main: the output file name *)

Suffix == <<"-", "s", "t", "a", "r", "r", "e", "d", ".", "j", "p", "g">>

PathChars == {"a", "b", ".", "/"}

NamedPaths ==
    { <<"i", "m", "g", ".", "p", "n", "g">>,
      <<".", "/", "i", "m", "g", ".", "p", "n", "g">>,
      <<"m", "y", ".", "p", "h", "o", "t", "o", ".", "p", "n", "g">>,
      <<"i", "m", "g">> }

Paths ==
    NamedPaths \cup UNION {[1..n -> PathChars] : n \in 0..MaxNameLen}

(* The positions of the character ch in s *)
Positions(s, ch) == {i \in 1..Len(s) : s[i] = ch}

Min(S) == CHOOSE m \in S : \A n \in S : m <= n
Max(S) == CHOOSE m \in S : \A n \in S : m >= n

(* str::split_once("."): the parts before and after the first "." *)
split_once(s, ch) ==
    IF Positions(s, ch) = {}
    THEN None
    ELSE LET i == Min(Positions(s, ch))
         IN  Some(<<SubSeq(s, 1, i - 1), SubSeq(s, i + 1, Len(s))>>)

FromOriginal(name) == [kind |-> "FromOriginal", name |-> name]
Custom(name) == [kind |-> "Custom", name |-> name]

(* create_output_path: Some(path), or Panic where expect fails *)
create_output_path(output_file_name) ==
    IF output_file_name.kind = "FromOriginal"
    THEN LET parts == split_once(output_file_name.name, ".")
         IN  IF parts = None
             THEN Panic
             ELSE Some(parts.val[1] \o Suffix)
    ELSE Some(output_file_name.name)

InitPath ==
    /\ file \in Paths
    /\ output_name \in {None, Some(<<"o", ".", "j", "p", "g">>)}
    /\ out_path = None
    /\ pc = "name"
    /\ stars = <<>>
    /\ x = 0
    /\ y = 0
    /\ CountIdle
    /\ MainIdle

(* if let Some(output_name) = args.output_name: Custom(output_name) *)
CustomName ==
    /\ pc = "name"
    /\ output_name # None
    /\ out_path' = create_output_path(Custom(output_name.val))
    /\ pc' = "path_done"
    /\ UNCHANGED <<stars, x, y, countVars, mainVars, file, output_name>>

(* else: FromOriginal(args.file) *)
OriginalName ==
    /\ pc = "name"
    /\ output_name = None
    /\ out_path' = create_output_path(FromOriginal(file))
    /\ pc' = IF out_path' = Panic THEN "panic" ELSE "path_done"
    /\ UNCHANGED <<stars, x, y, countVars, mainVars, file, output_name>>

NextPath ==
    \/ CustomName
    \/ OriginalName

SpecPath == InitPath /\ [][NextPath]_vars

---------------------------------------------------------------------------
(* 8-connectivity, stated on its own *)

Abs(n) == IF n < 0 THEN -n ELSE n

Adjacent(a, b) ==
    /\ a # b
    /\ Abs(a[1] - b[1]) <= 1
    /\ Abs(a[2] - b[2]) <= 1

Active(grid) == {c \in Cells(grid) : grid[c[1] + 1][c[2] + 1]}

RECURSIVE Closure(_, _)
Closure(grid, S) ==
    LET T == S \cup {c \in Active(grid) : \E s \in S : Adjacent(s, c)}
    IN  IF T = S THEN S ELSE Closure(grid, T)

(* The maximal 8-connected region of active cells that holds cell c *)
Region(grid, c) == Closure(grid, {c})

Regions(grid) == {Region(grid, c) : c \in Active(grid)}

Grid(rows) == [i \in 1..Len(rows[1]) |-> [j \in 1..Len(rows) |-> rows[j][i] = 1]]

FourCorners == Grid(<< <<1, 0, 1>>, <<0, 0, 0>>, <<1, 0, 1>> >>)
Line5 == Grid(<< <<1, 1, 0, 1, 1>> >>)

InBounds(grid, c) ==
    /\ 0 <= c[1] /\ c[1] < Width(grid)
    /\ 0 <= c[2] /\ c[2] < Height(grid)

---------------------------------------------------------------------------
(* C1: count_groups returns the number of maximal 8-connected regions of   *)
(* true cells; the four corners of a 3x3 grid give 4, and the cells        *)
(* 0, 1, 3, 4 of a 5x1 grid give 2.                                        *)
C1_CountIsNumberOfRegions ==
    pc = "done" =>
        /\ groups = Cardinality(Regions(stars))
        /\ stars = FourCorners => groups = 4
        /\ stars = Line5 => groups = 2

C1_Witness == pc = "done" /\ stars = FourCorners /\ groups = 4

(* C2: when all cells are processed the visited grid equals the occupancy  *)
(* grid cell for cell, so the assert_eq! of count_groups never fails.      *)
C2_VisitedEqualsStars ==
    /\ pc # "assert_failed"
    /\ pc \in {"assert", "done"} =>
          \A c \in Cells(stars) :
              visited[c[1] + 1][c[2] + 1] = stars[c[1] + 1][c[2] + 1]

C2_Witness ==
    /\ pc = "done"
    /\ visited = stars
    /\ Active(stars) # {}
    /\ Active(stars) # Cells(stars)

(* C5: the count is 0 if and only if every cell of the grid is false.      *)
C5_ZeroIffAllFalse ==
    pc \in {"assert", "done"} => (groups = 0 <=> Active(stars) = {})

C5_Witness ==
    /\ pc = "done"
    /\ groups = 0
    /\ Active(stars) = {}
    /\ Width(stars) = 3
    /\ Height(stars) = 3

(* C8: over a whole run every cell is put on to_visit at most once, it is  *)
(* marked visited when it is put there, and to_visit holds no duplicates   *)
(* and only active, visited cells.                                         *)
C8_PushedAtMostOnce ==
    /\ \A c \in Cells(stars) :
          /\ pushed[c] <= 1
          /\ pushed[c] = 1 => visited[c[1] + 1][c[2] + 1]
    /\ \A i \in 1..Len(to_visit) :
          /\ InBounds(stars, to_visit[i])
          /\ stars[to_visit[i][1] + 1][to_visit[i][2] + 1]
          /\ visited[to_visit[i][1] + 1][to_visit[i][2] + 1]
          /\ \A j \in 1..Len(to_visit) : to_visit[i] = to_visit[j] => i = j

C8_Witness ==
    /\ pc = "done"
    /\ groups >= 2
    /\ Cardinality(Active(stars)) >= 5
    /\ \A c \in Active(stars) : pushed[c] = 1

(* C9: a neighbour outside the grid is skipped without error: no step      *)
(* indexes stars or visited out of range, on every edge and corner, and a  *)
(* single active cell at (0, 0) is counted as 1 group.                     *)
C9_NoOutOfBounds ==
    /\ pc # "panic"
    /\ pc = "nbr" => InBounds(stars, <<cx, cy>>)
    /\ \A i \in 1..Len(to_visit) : InBounds(stars, to_visit[i])
    /\ (pc = "done" /\ Active(stars) = {<<0, 0>>}) => groups = 1

C9_Witness ==
    /\ pc = "done"
    /\ Active(stars) = {<<0, 0>>}
    /\ groups = 1
    /\ Width(stars) >= 2
    /\ Height(stars) >= 2

(* C10: every traversal that mark_group starts reaches an empty to_visit   *)
(* and returns, and then every active cell connected to the start cell by  *)
(* a chain of 8-adjacent active cells is visited.                          *)
C10_TraversalCompletes ==
    /\ (pc \in {"pop", "nbr"}) ~> (pc = "ret")
    /\ [](pc = "ret" =>
            \A c \in Region(stars, start) : visited[c[1] + 1][c[2] + 1])

C10_Witness ==
    /\ pc = "ret"
    /\ \E c \in Region(stars, start) : c # start /\ ~Adjacent(c, start)
    /\ \A c \in Region(stars, start) : visited[c[1] + 1][c[2] + 1]

---------------------------------------------------------------------------
(* The step-by-step run and the function count_groups give the same count *)
StepsAgreeWithFunction ==
    /\ pc = "done" => count_groups(stars) = Some(groups)
    /\ pc \in {"assert_failed", "panic"} => count_groups(stars) = Panic

(* C3: the thresholding pass gives a grid of the image's dimensions with   *)
(* stars[x][y] = (intensity[x][y] > sensitivity); a sample equal to the    *)
(* sensitivity is inactive, and with sensitivity 255 no cell is active     *)
(* and the count is 0.                                                     *)
C3_ThresholdIsStrict ==
    pc \in {"count", "render", "main_done"} =>
        /\ Width(stars) = img.width
        /\ \A i \in 1..img.width : Len(stars[i]) = img.height
        /\ \A c \in Cells(stars) :
              stars[c[1] + 1][c[2] + 1] =
                  (img.data[c[2] * img.width + c[1] + 1] > sensitivity)
        /\ sensitivity = U8Max =>
              /\ Active(stars) = {}
              /\ pc # "count" => res = Some(0)

C3_Witness ==
    /\ pc = "main_done"
    /\ sensitivity = U8Max
    /\ \E i \in 1..Len(img.data) : img.data[i] = U8Max
    /\ res = Some(0)

(* C4: the count is the same in whatever order the outer scan takes the    *)
(* cells: it is the count of the scan of count_groups, y outer, x inner.   *)
C4_CountIsOrderIndependent ==
    /\ pc \notin {"assert_failed", "panic"}
    /\ pc = "done" => Some(groups) = count_groups(stars)

C4_Witness ==
    /\ pc = "done"
    /\ stars = Line5
    /\ groups = 2
    /\ start = <<1, 0>>

(* C6: convert_to_image gives an image of the grid's dimensions with 255   *)
(* at the active and 0 at the inactive cells, and thresholding that image  *)
(* at any sensitivity below 255 gives the occupancy grid back.             *)
C6_MaskRoundTrip ==
    (pc = "main_done" /\ output_image) =>
        /\ luma.width = Width(stars)
        /\ luma.height = Height(stars)
        /\ Len(luma.data) = Width(stars) * Height(stars)
        /\ \A c \in Cells(stars) :
              luma.data[c[2] * luma.width + c[1] + 1] =
                  IF stars[c[1] + 1][c[2] + 1] THEN 255 ELSE 0
        /\ \A s \in 0..(U8Max - 1) : Threshold(luma, s) = stars

C6_Witness ==
    /\ pc = "main_done"
    /\ output_image
    /\ Active(stars) # {}
    /\ Active(stars) # Cells(stars)
    /\ Width(stars) # Height(stars)
    /\ Threshold(luma, U8Max - 1) = stars

(* The path of a file with its extension taken off: all before the last    *)
(* "." of the last component, where that component has an extension.       *)
LastComponentStart(s) ==
    IF Positions(s, "/") = {} THEN 1 ELSE Max(Positions(s, "/")) + 1

HasExtension(s) ==
    /\ Positions(s, ".") # {}
    /\ Max(Positions(s, ".")) > LastComponentStart(s)
    /\ Max(Positions(s, ".")) < Len(s)
    /\ \E i \in LastComponentStart(s)..(Max(Positions(s, ".")) - 1) : s[i] # "."

WithoutExtension(s) == SubSeq(s, 1, Max(Positions(s, ".")) - 1)

(* C7: with no output name given, create_output_path gives, for every      *)
(* file path that has an extension, the path with its extension taken off  *)
(* followed by "-starred.jpg", also where a "." comes before the           *)
(* extension's.                                                            *)
C7_StarredPath ==
    (pc # "name" /\ output_name = None /\ HasExtension(file)) =>
        /\ pc = "path_done"
        /\ out_path = Some(WithoutExtension(file) \o Suffix)

====
